---- MODULE Spec2Model ----
(***************************************************************************)
(* A model of the coastal hazard reporting application: the credibility    *)
(* scorer (SQL), the role resolver (useUserRole), the row-level security   *)
(* policies of the alert and hazard-report tables, and the report intake   *)
(* form (ReportForm.handleSubmit).                                         *)
(*                                                                         *)
(* Decimal values DECIMAL(3,2) are held in hundredths (0.10 is 10).        *)
(* A nullable column or value is an option: <<>> is NULL, <<v>> is v.      *)
(***************************************************************************)
EXTENDS Integers, Sequences, FiniteSets, Bags, TLC

VARIABLES
  \* --- the remote call of calculate_credibility_score -------------------
  scoreArgs,        \* the four named parameters of the call
  scoreResult,      \* <<>> before the call returned, <<score>> after
  \* --- the auth session and the useUserRole hook ------------------------
  user,             \* useAuth().user: a user id, or NoUser
  role,             \* useUserRole state `role` (Null before it resolved)
  loading,          \* useUserRole state `loading`
  lookups,          \* user ids whose user_roles query is in flight
  roleFor,          \* history: the user id whose lookup last wrote `role`
  roleVia,          \* history: the branch of fetchUserRole that wrote `role`
  \* --- the database -----------------------------------------------------
  accounts,         \* auth.users
  user_roles,       \* public.user_roles, a bag of (user_id, role) rows
  alerts,           \* public.alerts
  hazard_reports,   \* public.hazard_reports
  report_seq,       \* the number of rows ever inserted into hazard_reports
  objects,          \* storage.objects of the bucket report-images
  resp,             \* the response of the last storage-layer request
  \* --- ReportForm (and Index's isReportFormOpen) ------------------------
  formData,         \* hazardType, description, location, contactNumber
  imageFile,        \* the selected file's name, or NoFile
  currentLocation,  \* NULL, or the position getCurrentLocation captured
  isSubmitting,
  isReportFormOpen,
  pc,               \* the await handleSubmit is suspended at, or "idle"
  sub,              \* what the running handleSubmit closed over and holds
  toast,            \* the last toast shown
  \* --- MapDashboard (and Index's isDashboardOpen) ------------------------
  isDashboardOpen,
  filter,           \* the urgency filter
  credibilityFilter,
  reports,          \* the in-memory list of reports
  channels,         \* the number of subscribed hazard-reports-changes channels
  feed,             \* the change events on their way to the dashboard
  fetches,          \* the fetchReports calls in flight (a bag)
  \* --- AlertsPanel -------------------------------------------------------
  panelMounted,
  panel_alerts,     \* the in-memory list `alerts` of the panel
  alert_channels,   \* the number of subscribed alerts-changes channels
  alert_feed,       \* the insert events on their way to the panel
  alert_fetches     \* the fetchAlerts calls in flight (a bag)

scoreVars == <<scoreArgs, scoreResult>>
hookVars  == <<user, role, loading, lookups, roleFor, roleVia>>
dbVars    == <<accounts, user_roles, alerts, hazard_reports, report_seq, objects, resp>>
formVars  == <<formData, imageFile, currentLocation, isSubmitting, isReportFormOpen, pc, sub, toast>>
dashVars  == <<isDashboardOpen, filter, credibilityFilter, reports, channels, feed, fetches>>
panelVars == <<panelMounted, panel_alerts, alert_channels, alert_feed, alert_fetches>>
viewVars  == <<dashVars, panelVars>>
dashRest  == <<isDashboardOpen, filter, credibilityFilter, reports, channels, fetches>>
panelRest == <<panelMounted, panel_alerts, alert_channels, alert_fetches>>
vars      == <<scoreVars, hookVars, dbVars, formVars, viewVars>>

NULL == <<>>
Some(v) == <<v>>
IsNull(o) == o = <<>>
Val(o) == o[1]

(***************************************************************************)
(* Universes and bounds                                                    *)
(***************************************************************************)
Users == {"u1", "u2"}
NoUser == "nouser"
Null == "null"
Roles == {"citizen", "authority", "admin"}

MaxDescLen == 60
MaxNearby == 2
MaxNegative == 2
MaxAlerts == 2
MaxReports == 2
MaxSubmitted == 1
MaxFeed == 1
MaxFetches == 1
MaxFiltered == 1
MaxPosted == 1

(***************************************************************************)
(* 1. Credibility scorer                                                   *)
(***************************************************************************)
BASE_SCORE == 10
IMAGE_BONUS == 30
LOCATION_BONUS == 20
LENGTH_BONUS == 10
LENGTH_THRESHOLD == 50
NEARBY_BONUS == 30
SCORE_CAP == 100

\* An assignment to a DECIMAL(3,2) variable: at most three digits.
Dec32(v) == CASE v \in -999..999 -> v

\* Mutant: the length bonus is granted from 50 characters on.
calculate_credibility_score_ge(has_image, has_location, description_length, nearby_reports_count) ==
  LET s0 == Dec32(BASE_SCORE)
      s1 == IF has_image THEN Dec32(s0 + IMAGE_BONUS) ELSE s0
      s2 == IF has_location THEN Dec32(s1 + LOCATION_BONUS) ELSE s1
      s3 == IF description_length >= LENGTH_THRESHOLD
            THEN Dec32(s2 + LENGTH_BONUS) ELSE s2
      s4 == IF nearby_reports_count > 0 THEN Dec32(s3 + NEARBY_BONUS) ELSE s3
  IN  IF s4 > SCORE_CAP THEN Dec32(SCORE_CAP) ELSE s4

\* Mutant: the score starts at 0.0.
calculate_credibility_score_nobase(has_image, has_location, description_length, nearby_reports_count) ==
  LET s0 == Dec32(0)
      s1 == IF has_image THEN Dec32(s0 + IMAGE_BONUS) ELSE s0
      s2 == IF has_location THEN Dec32(s1 + LOCATION_BONUS) ELSE s1
      s3 == IF description_length > LENGTH_THRESHOLD
            THEN Dec32(s2 + LENGTH_BONUS) ELSE s2
      s4 == IF nearby_reports_count > 0 THEN Dec32(s3 + NEARBY_BONUS) ELSE s3
  IN  IF s4 > SCORE_CAP THEN Dec32(SCORE_CAP) ELSE s4

\* Mutant: the length bonus is granted to descriptions below the threshold.
calculate_credibility_score_lt(has_image, has_location, description_length, nearby_reports_count) ==
  LET s0 == Dec32(BASE_SCORE)
      s1 == IF has_image THEN Dec32(s0 + IMAGE_BONUS) ELSE s0
      s2 == IF has_location THEN Dec32(s1 + LOCATION_BONUS) ELSE s1
      s3 == IF description_length < LENGTH_THRESHOLD
            THEN Dec32(s2 + LENGTH_BONUS) ELSE s2
      s4 == IF nearby_reports_count > 0 THEN Dec32(s3 + NEARBY_BONUS) ELSE s3
  IN  IF s4 > SCORE_CAP THEN Dec32(SCORE_CAP) ELSE s4

\* Mutant: the nearby bonus is granted from a count of 0 on.
calculate_credibility_score_nearby(has_image, has_location, description_length, nearby_reports_count) ==
  LET s0 == Dec32(BASE_SCORE)
      s1 == IF has_image THEN Dec32(s0 + IMAGE_BONUS) ELSE s0
      s2 == IF has_location THEN Dec32(s1 + LOCATION_BONUS) ELSE s1
      s3 == IF description_length > LENGTH_THRESHOLD
            THEN Dec32(s2 + LENGTH_BONUS) ELSE s2
      s4 == IF nearby_reports_count >= 0 THEN Dec32(s3 + NEARBY_BONUS) ELSE s3
  IN  IF s4 > SCORE_CAP THEN Dec32(SCORE_CAP) ELSE s4

calculate_credibility_score(has_image, has_location, description_length, nearby_reports_count) ==
  LET s0 == Dec32(BASE_SCORE)
      s1 == IF has_image THEN Dec32(s0 + IMAGE_BONUS) ELSE s0
      s2 == IF has_location THEN Dec32(s1 + LOCATION_BONUS) ELSE s1
      s3 == IF description_length > LENGTH_THRESHOLD
            THEN Dec32(s2 + LENGTH_BONUS) ELSE s2
      s4 == IF nearby_reports_count > 0 THEN Dec32(s3 + NEARBY_BONUS) ELSE s3
  IN  IF s4 > SCORE_CAP THEN Dec32(SCORE_CAP) ELSE s4

ScoreArgSets ==
  [has_image : BOOLEAN, has_location : BOOLEAN,
   description_length : (-MaxNegative)..MaxDescLen,
   nearby_reports_count : (-MaxNegative)..MaxNearby]

NoArgs == [has_image |-> FALSE, has_location |-> FALSE,
           description_length |-> 0, nearby_reports_count |-> 0]

ScoreIdle == scoreArgs = NoArgs /\ scoreResult = NULL

\* supabase.rpc('calculate_credibility_score', args) returns.
RpcScore ==
  /\ scoreResult = NULL
  /\ scoreResult' = Some(calculate_credibility_score(
                      scoreArgs.has_image, scoreArgs.has_location,
                      scoreArgs.description_length,
                      scoreArgs.nearby_reports_count))
  /\ UNCHANGED <<scoreArgs, hookVars, dbVars, formVars, viewVars>>

(***************************************************************************)
(* 2. user_roles: the table, has_role, get_user_role, the SELECT policies  *)
(***************************************************************************)
\* CREATE TYPE user_role AS ENUM (...): an enum sorts in declaration order.
user_role == <<"citizen", "authority", "admin">>
EnumPos(r) == CHOOSE i \in 1..Len(user_role) : user_role[i] = r

RoleRow(u, r) == [user_id |-> u, role |-> r]

has_role(_user_id, _role) == BagIn(RoleRow(_user_id, _role), user_roles)

\* ORDER BY CASE role WHEN 'admin' THEN 1 WHEN 'authority' THEN 2
\* WHEN 'citizen' THEN 3 END LIMIT 1; no row gives NULL.
get_user_role(_user_id) ==
  LET ord == [admin |-> 1, authority |-> 2, citizen |-> 3]
      held == {r \in Roles : has_role(_user_id, r)}
  IN  IF held = {} THEN Null
      ELSE CHOOSE r \in held : \A q \in held : ord[r] <= ord[q]

\* "Users can view their own role" OR "Admins can view all roles".
UserRolesSelectPolicy(uid, row) ==
  \/ uid = row.user_id
  \/ has_role(uid, "admin")

\* from('user_roles').select('role').eq('user_id', uid)
\*   .order('role', {ascending: true}).limit(1).single(), sent as uid.
\* single() answers error PGRST116 and no data when no row is returned.
UserRoleQuery(uid) ==
  LET rows == {row \in BagToSet(user_roles) :
                 UserRolesSelectPolicy(uid, row) /\ row.user_id = uid}
      first == CHOOSE row \in rows :
                 \A o \in rows : EnumPos(row.role) <= EnumPos(o.role)
  IN  IF rows = {} THEN [data |-> Null, error |-> "PGRST116"]
      ELSE [data |-> first.role, error |-> Null]

\* Mutant of UserRolesInsert: the table has no UNIQUE (user_id, role).
\* The rows of user_roles are written by the account trigger and by the
\* service role only (no INSERT, UPDATE or DELETE policy exists).
\* UNIQUE (user_id, role) and the foreign key to auth.users guard an insert.
UserRolesInsert_nounique(u, r) ==
  IF u \in accounts
  THEN user_roles (+) SetToBag({RoleRow(u, r)})
  ELSE user_roles

UserRolesInsert(u, r) ==
  IF u \in accounts /\ ~BagIn(RoleRow(u, r), user_roles)
  THEN user_roles (+) SetToBag({RoleRow(u, r)})
  ELSE user_roles

\* A sign-up: the row of auth.users, and on_auth_user_created_role inserts
\* the citizen row in the same transaction.
CreateAccount(u) ==
  /\ u \notin accounts
  /\ accounts' = accounts \cup {u}
  /\ user_roles' = user_roles (+) SetToBag({RoleRow(u, "citizen")})
  /\ resp' = [op |-> "auth.signup", user_id |-> u]
  /\ UNCHANGED <<alerts, hazard_reports, report_seq, objects, scoreVars, hookVars, formVars, viewVars>>

\* The service role inserts a role row.
GrantRole(u, r) ==
  /\ u \in accounts
  /\ user_roles' = UserRolesInsert(u, r)
  /\ resp' = [op |-> "user_roles.insert", user_id |-> u, role |-> r]
  /\ UNCHANGED <<accounts, alerts, hazard_reports, report_seq, objects, scoreVars, hookVars, formVars, viewVars>>

\* The service role deletes a role row.
RevokeRole(u, r) ==
  /\ BagIn(RoleRow(u, r), user_roles)
  /\ user_roles' = user_roles (-) SetToBag({RoleRow(u, r)})
  /\ resp' = [op |-> "user_roles.delete", user_id |-> u, role |-> r]
  /\ UNCHANGED <<accounts, alerts, hazard_reports, report_seq, objects, scoreVars, hookVars, formVars, viewVars>>

(***************************************************************************)
(* 2b. alerts: the table, its policies, sendAlert                          *)
(***************************************************************************)
\* Mutant: any holder of a role row may insert.
AlertsInsertPolicy_anyrole(uid) ==
  \/ has_role(uid, "citizen")
  \/ has_role(uid, "authority")
  \/ has_role(uid, "admin")

\* "Authorities and admins can create alerts": WITH CHECK.
AlertsInsertPolicy(uid) ==
  \/ has_role(uid, "authority")
  \/ has_role(uid, "admin")

\* Mutant: the policy of the citizens lets them view every alert.
AlertsSelectPolicy_all(uid, row) == TRUE

\* "Citizens can view active alerts" OR "Authorities and admins can view
\* all alerts".
AlertsSelectPolicy(uid, row) ==
  \/ row.is_active = Some(TRUE)
  \/ has_role(uid, "authority")
  \/ has_role(uid, "admin")

Col(input, c, default) == IF c \in DOMAIN input THEN input[c] ELSE default

\* INSERT INTO alerts as uid.  by and by_held are history: the caller, and
\* whether the caller held an authority or admin row when the row went in.
AlertsInsert(uid, input) ==
  IF ~AlertsInsertPolicy(uid)
  THEN [result |-> "rls_violation", table |-> alerts]
  ELSE [result |-> "ok",
        table |-> alerts \cup
          {[id |-> Cardinality(alerts) + 1,
            alert_message |-> input.alert_message,
            sent_to |-> input.sent_to,
            sender_id |-> input.sender_id,
            report_id |-> input.report_id,
            is_active |-> Col(input, "is_active", Some(TRUE)),
            by |-> uid,
            by_held |-> {r \in {"authority", "admin"} :
                           BagIn(RoleRow(uid, r), user_roles)} # {}]}]

\* The publication supabase_realtime holds alerts: an insert is sent to the
\* subscribed alerts-changes channel of the session's user when the SELECT
\* policies let that user see the row.
PublishAlerts(rows) ==
  IF alert_channels > 0 /\ rows # {} /\ (\A row \in rows : AlertsSelectPolicy(user, row))
  THEN Append(alert_feed, [eventType |-> "INSERT", new |-> CHOOSE row \in rows : TRUE])
  ELSE alert_feed

\* String.prototype.trim on a message held as a sequence of characters.
RECURSIVE TrimStart(_)
TrimStart(m) == IF m # <<>> /\ Head(m) = " " THEN TrimStart(Tail(m)) ELSE m
RECURSIVE TrimEnd(_)
TrimEnd(m) ==
  IF m # <<>> /\ m[Len(m)] = " " THEN TrimEnd(SubSeq(m, 1, Len(m) - 1)) ELSE m
Trim(m) == TrimEnd(TrimStart(m))

AlertMessages == {<<>>, <<" ">>, <<" ", "E", " ">>}

\* sendAlert in a client signed in as u, from the click to the end of
\* finally (the panel's own fields are reset on success and are not kept).
sendAlert(u, alertMessage) ==
  /\ u \in accounts
  /\ Cardinality(alerts) < MaxAlerts
  /\ IF Trim(alertMessage) = <<>>
     THEN /\ resp' = [op |-> "sendAlert", caller |-> u, result |-> "not_sent"]
          /\ UNCHANGED <<alerts, alert_feed>>
     ELSE LET r == AlertsInsert(u, [alert_message |-> Trim(alertMessage),
                                    sent_to |-> "all", sender_id |-> u,
                                    report_id |-> NULL])
          IN  /\ alerts' = r.table
              /\ alert_feed' = PublishAlerts(r.table \ alerts)
              /\ resp' = [op |-> "alerts.insert", caller |-> u,
                          result |-> r.result]
  /\ UNCHANGED <<accounts, user_roles, hazard_reports, report_seq, objects, scoreVars, hookVars, formVars, dashVars, panelRest>>

\* An insert into alerts sent to the API directly, with any sender and flag.
ApiInsertAlert(u, sender, active) ==
  /\ u \in accounts
  /\ Cardinality(alerts) < MaxAlerts
  /\ LET r == AlertsInsert(u, [alert_message |-> <<"E">>, sent_to |-> "all",
                               sender_id |-> sender, report_id |-> NULL,
                               is_active |-> Some(active)])
     IN  /\ alerts' = r.table
         /\ alert_feed' = PublishAlerts(r.table \ alerts)
         /\ resp' = [op |-> "alerts.insert", caller |-> u, result |-> r.result]
  /\ UNCHANGED <<accounts, user_roles, hazard_reports, report_seq, objects, scoreVars, hookVars, formVars, dashVars, panelRest>>

(***************************************************************************)
(* 2c. hazard_reports: the table, its constraints and policies             *)
(***************************************************************************)
hazard_type == {"Coastal Flooding", "High Waves", "Storm Surge", "Erosion", "Tsunami Warning", "Strong Winds", "Other"}
report_status == {"submitted", "under_review", "resolved", "dismissed"}
Urgencies == {"low", "medium", "high"}

\* Mutant: the upper bound of the CHECK is missing.
ScoreCheck_noupper(score) == IsNull(score) \/ Val(score) >= 0

\* CHECK (credibility_score >= 0 AND credibility_score <= 1): a CHECK
\* whose condition is unknown (NULL) passes.
ScoreCheck(score) == IsNull(score) \/ (Val(score) >= 0 /\ Val(score) <= 100)

\* CHECK (urgency IN ('low', 'medium', 'high'))
UrgencyCheck(urgency) == IsNull(urgency) \/ Val(urgency) \in Urgencies

\* Mutant: authorities and admins see only their own reports.
ReportsSelectPolicy_own(uid, row) == uid = row.user_id

\* "Users can view their own reports" OR "Authorities and admins can view
\* all reports".
ReportsSelectPolicy(uid, row) ==
  \/ uid = row.user_id
  \/ has_role(uid, "authority") \/ has_role(uid, "admin")

\* "Users can create their own reports": WITH CHECK.
ReportsInsertPolicy(uid, row) == uid = row.user_id

\* Mutant: authorities and admins may update every report.
ReportsUpdatePolicy_authority(uid, row) ==
  \/ uid = row.user_id
  \/ has_role(uid, "authority") \/ has_role(uid, "admin")

\* "Users can update their own reports": USING, and the WITH CHECK that
\* defaults to it.
ReportsUpdatePolicy(uid, row) == uid = row.user_id

\* "Users can delete their own reports": USING.
ReportsDeletePolicy(uid, row) == uid = row.user_id

\* The columns NOT NULL of hazard_reports, and the enum of hazard_type.
ReportNotNull(row) ==
  /\ row.user_id # NoUser
  /\ row.hazard_type \in hazard_type
  /\ row.description # NULL
  /\ row.location # NULL
  /\ row.status \in report_status

\* The row an INSERT builds from the columns given: the others take their
\* DEFAULT (status 'submitted', urgency 'medium', credibility_score 0.5,
\* created_at now(): the clock is the number of the insert).
NewReport(id, input) ==
  [id |-> id,
   created_at |-> Col(input, "created_at", id),
   user_id |-> input.user_id,
   hazard_type |-> input.hazard_type,
   description |-> input.description,
   location |-> input.location,
   contact_number |-> Col(input, "contact_number", NULL),
   image_url |-> Col(input, "image_url", NULL),
   latitude |-> Col(input, "latitude", NULL),
   longitude |-> Col(input, "longitude", NULL),
   status |-> Col(input, "status", "submitted"),
   urgency |-> Col(input, "urgency", Some("medium")),
   credibility_score |-> Col(input, "credibility_score", Some(50))]

\* INSERT INTO hazard_reports as uid.
HazardReportsInsert(uid, input) ==
  LET row == NewReport(report_seq + 1, input)
  IN  IF ~ReportsInsertPolicy(uid, row)
      THEN [result |-> "rls_violation", table |-> hazard_reports]
      ELSE IF ~ReportNotNull(row)
      THEN [result |-> "not_null_violation", table |-> hazard_reports]
      ELSE IF ~(ScoreCheck(row.credibility_score) /\ UrgencyCheck(row.urgency))
      THEN [result |-> "check_violation", table |-> hazard_reports]
      ELSE [result |-> "ok", table |-> hazard_reports \cup {row}]

Patched(row, patch) ==
  [c \in DOMAIN row |-> IF c \in DOMAIN patch THEN patch[c] ELSE row[c]]

\* UPDATE hazard_reports SET patch WHERE id = id, as uid: the rows the
\* SELECT and UPDATE policies hide are not updated (and no error is raised).
HazardReportsUpdate(uid, id, patch) ==
  LET old == {row \in hazard_reports :
                /\ row.id = id
                /\ ReportsSelectPolicy(uid, row)
                /\ ReportsUpdatePolicy(uid, row)}
      new == {Patched(row, patch) : row \in old}
  IN  IF old = {}
      THEN [result |-> "no_rows", table |-> hazard_reports]
      ELSE IF \E row \in new : ~ReportsUpdatePolicy(uid, row)
      THEN [result |-> "rls_violation", table |-> hazard_reports]
      ELSE IF \E row \in new : ~ReportNotNull(row)
      THEN [result |-> "not_null_violation", table |-> hazard_reports]
      ELSE IF \E row \in new :
                ~(ScoreCheck(row.credibility_score) /\ UrgencyCheck(row.urgency))
      THEN [result |-> "check_violation", table |-> hazard_reports]
      ELSE [result |-> "ok", table |-> (hazard_reports \ old) \cup new]

\* DELETE FROM hazard_reports WHERE id = id, as uid.
HazardReportsDelete(uid, id) ==
  LET old == {row \in hazard_reports :
                /\ row.id = id
                /\ ReportsSelectPolicy(uid, row)
                /\ ReportsDeletePolicy(uid, row)}
  IN  IF old = {}
      THEN [result |-> "no_rows", table |-> hazard_reports]
      ELSE [result |-> "ok", table |-> hazard_reports \ old]

\* SELECT * FROM hazard_reports, as uid.
HazardReportsSelect(uid) ==
  {row \in hazard_reports : ReportsSelectPolicy(uid, row)}

\* The publication supabase_realtime holds hazard_reports: the rows an
\* insert or update wrote are sent, as events of that type, to the
\* subscribed hazard-reports-changes channel of the session's user when the
\* SELECT policies let that user see them.
PublishReports(type, rows) ==
  IF channels > 0 /\ rows # {} /\ (\A row \in rows : ReportsSelectPolicy(user, row))
  THEN Append(feed, [eventType |-> type, new |-> CHOOSE row \in rows : TRUE])
  ELSE feed

\* The requests a signed-in client can send to the API.
ApiInsertReport(u, input) ==
  /\ u \in accounts
  /\ report_seq < MaxReports
  /\ LET r == HazardReportsInsert(u, input)
     IN  /\ hazard_reports' = r.table
         /\ feed' = PublishReports("INSERT", r.table \ hazard_reports)
         /\ report_seq' = IF r.result = "ok" THEN report_seq + 1 ELSE report_seq
         /\ resp' = [op |-> "hazard_reports.insert", caller |-> u,
                     id |-> report_seq + 1, result |-> r.result]
  /\ UNCHANGED <<accounts, user_roles, alerts, objects, scoreVars, hookVars, formVars, dashRest, panelVars>>

\* Mutant: a number is cut, not rounded, to two decimal places.
ToDecimal32_cut(n) == IF n >= 0 THEN n \div 10 ELSE -((-n) \div 10)

\* A number of a request body is held in thousandths.  Its conversion to
\* DECIMAL(3,2), in hundredths: rounded to two decimal places, half away
\* from zero.
ToDecimal32(n) == IF n >= 0 THEN (n + 5) \div 10 ELSE -((5 - n) \div 10)

\* DECIMAL(3,2) holds absolute values below 10.
Decimal32Overflow(d) == d <= -1000 \/ d >= 1000

\* The column values of a request body.
FromJson(body) ==
  [c \in DOMAIN body |->
     IF c = "credibility_score" /\ ~IsNull(body[c])
     THEN Some(ToDecimal32(Val(body[c]))) ELSE body[c]]

\* The number a response carries for a DECIMAL(3,2) value, in thousandths.
JsonNumber(d) == IF IsNull(d) THEN NULL ELSE Some(Val(d) * 10)

\* from('hazard_reports').insert(body) with the numbers of the body as
\* the client wrote them.  body is kept in resp as history.
PostReport(u, body) ==
  /\ u \in accounts
  /\ report_seq < MaxReports
  /\ LET row == FromJson(body)
         r == IF ~IsNull(row.credibility_score) /\ Decimal32Overflow(Val(row.credibility_score))
              THEN [result |-> "numeric_overflow", table |-> hazard_reports]
              ELSE HazardReportsInsert(u, row)
     IN  /\ hazard_reports' = r.table
         /\ feed' = PublishReports("INSERT", r.table \ hazard_reports)
         /\ report_seq' = IF r.result = "ok" THEN report_seq + 1 ELSE report_seq
         /\ resp' = [op |-> "hazard_reports.post", caller |-> u,
                     id |-> report_seq + 1, body |-> body, result |-> r.result]
  /\ UNCHANGED <<accounts, user_roles, alerts, objects, scoreVars, hookVars, formVars, dashRest, panelVars>>

ApiUpdateReport(u, id, patch) ==
  /\ u \in accounts
  /\ \E row \in hazard_reports : row.id = id
  /\ Len(feed) < MaxFeed
  /\ LET r == HazardReportsUpdate(u, id, patch)
     IN  /\ hazard_reports' = r.table
         /\ feed' = PublishReports("UPDATE", IF r.result = "ok" THEN {row \in r.table : row.id = id} ELSE {})
         /\ resp' = [op |-> "hazard_reports.update", caller |-> u, id |-> id,
                     patch |-> patch, result |-> r.result]
  /\ UNCHANGED <<accounts, user_roles, alerts, report_seq, objects, scoreVars, hookVars, formVars, dashRest, panelVars>>

ApiDeleteReport(u, id) ==
  /\ u \in accounts
  /\ \E row \in hazard_reports : row.id = id
  /\ LET r == HazardReportsDelete(u, id)
     IN  /\ hazard_reports' = r.table
         /\ resp' = [op |-> "hazard_reports.delete", caller |-> u, id |-> id,
                     result |-> r.result]
  /\ UNCHANGED <<accounts, user_roles, alerts, report_seq, objects, scoreVars, hookVars, formVars, viewVars>>

ApiSelectReports(u) ==
  /\ u \in accounts
  /\ resp' = [op |-> "hazard_reports.select", caller |-> u,
              rows |-> HazardReportsSelect(u)]
  /\ UNCHANGED <<accounts, user_roles, alerts, hazard_reports, report_seq, objects, scoreVars, hookVars, formVars, viewVars>>

\* The columns a report of owner u needs; the others are left to DEFAULT.
ReportOf(u) ==
  [user_id |-> u, hazard_type |-> "High Waves",
   description |-> Some("d"), location |-> Some("l")]

WithScore(input, score) ==
  [c \in DOMAIN input \cup {"credibility_score"} |->
     IF c = "credibility_score" THEN score ELSE input[c]]

ScoreInputs == {NULL, Some(-1), Some(0), Some(100), Some(101)}

(***************************************************************************)
(* 3. useUserRole (the role resolver of the client) and RoleGuard          *)
(***************************************************************************)
\* What a lookup can end with: the query's response, a response carrying
\* another error (network, server), or an exception thrown by the call.
LookupOutcomes == {"response", "error", "thrown"}

LookupResult(uid, outcome) ==
  IF outcome = "response" THEN UserRoleQuery(uid)
  ELSE [data |-> Null, error |-> "FAILED"]

\* The branch of fetchUserRole's try/catch taken for a lookup's end.
LookupBranch(outcome, result) ==
  IF outcome = "thrown" THEN "thrown"
  ELSE IF result.error # Null /\ result.error # "PGRST116" THEN "error"
  ELSE IF result.data = Null THEN "norow"
  ELSE "row"

\* Mutant: the error branches leave the role unresolved.
RoleFromLookup_nodefault(outcome, result) ==
  IF outcome = "thrown" THEN Null
  ELSE IF result.error # Null /\ result.error # "PGRST116" THEN Null
  ELSE IF result.data = Null THEN "citizen" ELSE result.data

\* The value fetchUserRole passes to setRole.
RoleFromLookup(outcome, result) ==
  IF outcome = "thrown" THEN "citizen"
  ELSE IF result.error # Null /\ result.error # "PGRST116" THEN "citizen"
  ELSE IF result.data = Null THEN "citizen" ELSE result.data

roleHierarchy == [admin |-> 3, authority |-> 2, citizen |-> 1]

\* Mutant: a role satisfies only the roles strictly below it.
hasRole_strict(requiredRole) ==
  IF role = Null THEN FALSE
  ELSE roleHierarchy[role] > roleHierarchy[requiredRole]

hasRole(requiredRole) ==
  IF role = Null THEN FALSE
  ELSE roleHierarchy[role] >= roleHierarchy[requiredRole]

\* RoleGuard renders its children.
RoleGuardAdmits(requiredRole) == ~loading /\ hasRole(requiredRole)

\* useEffect(..., [user?.id]): the body of fetchUserRole up to its await.
FetchUserRoleStart(uid) ==
  IF uid = NoUser
  THEN /\ role' = Null /\ loading' = FALSE
       /\ roleFor' = NoUser /\ roleVia' = "nouser"
       /\ UNCHANGED lookups
  ELSE /\ lookups' = lookups \cup {uid}
       /\ UNCHANGED <<role, loading, roleFor, roleVia>>

\* The session gets a user: Index renders RoleGuard, whose hook starts with
\* role null and loading true, and the effect runs.
SignIn(u) ==
  /\ user = NoUser
  /\ user' = u
  /\ role' = Null /\ loading' = TRUE
  /\ roleFor' = NoUser /\ roleVia' = "none"
  /\ lookups' = {u}
  /\ UNCHANGED <<scoreVars, dbVars, formVars, viewVars>>

\* The session's user is replaced by another one: RoleGuard stays mounted,
\* user?.id changed, the effect runs again.
SwitchUser(u) ==
  /\ user \in Users /\ u # user
  /\ user' = u
  /\ FetchUserRoleStart(u)
  /\ UNCHANGED <<scoreVars, dbVars, formVars, viewVars>>

\* signOut: Index renders <Navigate>, RoleGuard unmounts and its hook state
\* and the pending continuations of its lookups go with it.
SignOut ==
  /\ user \in Users
  /\ user' = NoUser
  /\ role' = Null /\ loading' = TRUE
  /\ roleFor' = NoUser /\ roleVia' = "none"
  /\ lookups' = {}
  /\ UNCHANGED <<scoreVars, dbVars, formVars, viewVars>>

\* A lookup ends: fetchUserRole from its await to the end of finally.
FetchUserRoleReturn(uid, outcome) ==
  /\ uid \in lookups
  /\ LET result == LookupResult(uid, outcome)
     IN  /\ role' = RoleFromLookup(outcome, result)
         /\ roleVia' = LookupBranch(outcome, result)
  /\ roleFor' = uid
  /\ loading' = FALSE
  /\ lookups' = lookups \ {uid}
  /\ UNCHANGED <<user, scoreVars, dbVars, formVars, viewVars>>

(***************************************************************************)
(* 4. The bucket report-images                                             *)
(***************************************************************************)
\* An object name is the sequence of its path segments.
\* storage.foldername(name): the segments before the file name.
foldername(name) == SubSeq(name, 1, Len(name) - 1)

\* "Users can upload their own report images": WITH CHECK (bucket_id =
\* 'report-images' AND auth.uid()::text = (storage.foldername(name))[1]).
\* An index past the end of the array is NULL, and the check is not true.
ObjectsInsertPolicy(uid, name) ==
  /\ Len(foldername(name)) >= 1
  /\ foldername(name)[1] = uid

\* storage.from('report-images').upload(name, file), as uid.
ObjectsUpload(uid, name) ==
  IF ~ObjectsInsertPolicy(uid, name)
  THEN [error |-> "new row violates row-level security policy", table |-> objects]
  ELSE IF name \in objects
  THEN [error |-> "The resource already exists", table |-> objects]
  ELSE [error |-> Null, table |-> objects \cup {name}]

(***************************************************************************)
(* 5. ReportForm (report intake)                                           *)
(***************************************************************************)
D50 == "Waves are overtopping the sea wall by the old pier"
D51 == "Waves are overtopping the sea wall by the old pier."

NoFile == "nofile"
Files == {"photo.jpg"}
FormHazardTypes == {"High Waves"}
Descriptions == {D50, D51}
LocationTexts == {"Marina Beach"}
ContactNumbers == {"5550100"}
Positions == {[latitude |-> 13, longitude |-> 80], [latitude |-> 0, longitude |-> 80]}

EmptyForm == [hazardType |-> "", description |-> "", location |-> "", contactNumber |-> ""]

NoSub == [formData |-> EmptyForm, imageFile |-> NoFile, currentLocation |-> NULL, user |-> NoUser, fileName |-> <<>>, imageUrl |-> NULL, credibilityScore |-> NULL]

NoToast == [title |-> "", description |-> ""]
ToastAuth == [title |-> "Authentication Required", description |-> "Please log in to submit a report."]
ToastMissing == [title |-> "Missing Information", description |-> "Please fill in all required fields."]
ToastSuccess == [title |-> "Report Submitted Successfully!", description |-> "Thank you for your report. Authorities have been notified."]
ToastDenied == [title |-> "Location Access Denied", description |-> "Please enable location access or enter your location manually."]
ToastFailed(message) == [title |-> "Submission Failed", description |-> message]

FormIdle ==
  /\ formData = EmptyForm /\ imageFile = NoFile /\ currentLocation = NULL
  /\ isSubmitting = FALSE /\ isReportFormOpen = FALSE
  /\ pc = "idle" /\ sub = NoSub /\ toast = NoToast

formFrame == <<scoreVars, role, loading, lookups, roleFor, roleVia, accounts, user_roles, alerts, resp>>

\* Index: onReportClick sets isReportFormOpen.
OpenReportForm ==
  /\ user # NoUser /\ ~isReportFormOpen
  /\ isReportFormOpen' = TRUE
  /\ UNCHANGED <<formData, imageFile, currentLocation, isSubmitting, pc, sub, toast>>
  /\ UNCHANGED <<formFrame, user, hazard_reports, report_seq, objects, viewVars>>

\* Mutant: closing the form drops the submission in flight.
CloseReportForm_cancel ==
  /\ isReportFormOpen
  /\ isReportFormOpen' = FALSE
  /\ isSubmitting' = FALSE /\ pc' = "idle" /\ sub' = NoSub
  /\ UNCHANGED <<formData, imageFile, currentLocation, toast>>
  /\ UNCHANGED <<formFrame, user, hazard_reports, report_seq, objects, viewVars>>

\* The X button: onClose.  The component stays mounted and keeps its state.
CloseReportForm ==
  /\ isReportFormOpen
  /\ isReportFormOpen' = FALSE
  /\ UNCHANGED <<formData, imageFile, currentLocation, isSubmitting, pc, sub, toast>>
  /\ UNCHANGED <<formFrame, user, hazard_reports, report_seq, objects, viewVars>>

\* onValueChange / onChange of the four fields.
SetField(field, value) ==
  /\ isReportFormOpen
  /\ formData[field] # value
  /\ formData' = [formData EXCEPT ![field] = value]
  /\ UNCHANGED <<imageFile, currentLocation, isSubmitting, isReportFormOpen, pc, sub, toast>>
  /\ UNCHANGED <<formFrame, user, hazard_reports, report_seq, objects, viewVars>>

\* handleImageSelect with a file chosen, and the Remove Image button.
handleImageSelect(file) ==
  /\ isReportFormOpen
  /\ imageFile # file
  /\ imageFile' = file
  /\ UNCHANGED <<formData, currentLocation, isSubmitting, isReportFormOpen, pc, sub, toast>>
  /\ UNCHANGED <<formFrame, user, hazard_reports, report_seq, objects, viewVars>>

\* toFixed(6) of a whole number of degrees.
ToFixed6(n) == ToString(n) \o ".000000"

ToastUnsupported == [title |-> "Geolocation Not Supported", description |-> "Your browser doesn't support geolocation. Please enter your location manually."]

GeoOutcomes == {"position", "denied", "unsupported"}

\* getCurrentLocation with its success callback or its error callback, or
\* without navigator.geolocation.
getCurrentLocation(position, outcome) ==
  /\ isReportFormOpen
  /\ IF outcome = "position"
     THEN /\ currentLocation' = Some(position)
          /\ formData' = [formData EXCEPT !.location = ToFixed6(position.latitude) \o ", " \o ToFixed6(position.longitude)]
          /\ UNCHANGED toast
     ELSE /\ toast' = IF outcome = "denied" THEN ToastDenied ELSE ToastUnsupported
          /\ UNCHANGED <<currentLocation, formData>>
  /\ UNCHANGED <<imageFile, isSubmitting, isReportFormOpen, pc, sub>>
  /\ UNCHANGED <<formFrame, user, hazard_reports, report_seq, objects, viewVars>>

\* Mutant: the location is not among the required fields.
MissingRequired_nolocation(fd) == fd.hazardType = "" \/ fd.description = ""

\* !formData.hazardType || !formData.description || !formData.location
MissingRequired(fd) == fd.hazardType = "" \/ fd.description = "" \/ fd.location = ""

\* `${Date.now()}-${imageFile.name}`: one path segment.
FileName(now, name) == <<ToString(now) \o "-" \o name>>

\* handleSubmit, from the submit event to its first await (or its return).
\* The submit button is disabled while isSubmitting.
handleSubmit ==
  /\ isReportFormOpen /\ ~isSubmitting /\ pc = "idle"
  /\ report_seq < MaxSubmitted
  /\ IF user = NoUser
     THEN /\ toast' = ToastAuth
          /\ UNCHANGED <<isSubmitting, pc, sub>>
     ELSE IF MissingRequired(formData)
     THEN /\ toast' = ToastMissing
          /\ UNCHANGED <<isSubmitting, pc, sub>>
     ELSE /\ isSubmitting' = TRUE
          /\ sub' = [formData |-> formData, imageFile |-> imageFile,
                     currentLocation |-> currentLocation, user |-> user,
                     fileName |-> IF imageFile # NoFile
                                  THEN FileName(Cardinality(objects) + 1, imageFile)
                                  ELSE <<>>,
                     imageUrl |-> NULL, credibilityScore |-> NULL]
          /\ pc' = IF imageFile # NoFile THEN "upload" ELSE "rpc"
          /\ UNCHANGED toast
  /\ UNCHANGED <<formData, imageFile, currentLocation, isReportFormOpen>>
  /\ UNCHANGED <<formFrame, user, hazard_reports, report_seq, objects, viewVars>>

\* What a request can end with: the backend's response, or a failure to
\* reach it (reported by the client library as an error).
RequestOutcomes == {"response", "failed"}

\* Mutant: uploadError is not looked at.
UploadFailed_ignored(uploadError) == FALSE

\* if (uploadError) throw ...
UploadFailed(uploadError) == uploadError # Null

\* Mutant: the failed request is issued again.
SubmitFailed_retry(message) ==
  /\ toast' = ToastFailed(message)
  /\ UNCHANGED <<isSubmitting, pc, sub>>
  /\ UNCHANGED <<formData, imageFile, currentLocation, isReportFormOpen>>

\* catch and finally of handleSubmit.
SubmitFailed(message) ==
  /\ toast' = ToastFailed(message)
  /\ isSubmitting' = FALSE
  /\ pc' = "idle" /\ sub' = NoSub
  /\ UNCHANGED <<formData, imageFile, currentLocation, isReportFormOpen>>

\* The upload returns: handleSubmit up to the rpc call.
UploadReturn(outcome) ==
  /\ pc = "upload"
  /\ LET r == IF outcome = "response" THEN ObjectsUpload(sub.user, sub.fileName)
              ELSE [error |-> "Failed to fetch", table |-> objects]
     IN  /\ objects' = r.table
         /\ IF UploadFailed(r.error)
            THEN SubmitFailed("Image upload failed: " \o r.error)
            ELSE /\ sub' = [sub EXCEPT !.imageUrl = Some(sub.fileName)]
                 /\ pc' = "rpc"
                 /\ UNCHANGED <<formData, imageFile, currentLocation, isReportFormOpen, isSubmitting, toast>>
  /\ UNCHANGED <<formFrame, user, hazard_reports, report_seq, viewVars>>

Truthy(n) == n # 0

\* !!(currentLocation?.latitude && currentLocation?.longitude)
HasLocation(loc) == ~IsNull(loc) /\ Truthy(Val(loc).latitude) /\ Truthy(Val(loc).longitude)

\* The rpc returns (its error is not looked at): handleSubmit up to the
\* insert.
RpcReturn(outcome) ==
  /\ pc = "rpc"
  /\ LET data == IF outcome = "response"
                 THEN Some(calculate_credibility_score(sub.imageFile # NoFile, HasLocation(sub.currentLocation), Len(sub.formData.description), 0))
                 ELSE NULL
     IN  sub' = [sub EXCEPT !.credibilityScore = data]
  /\ pc' = "insert"
  /\ UNCHANGED <<formData, imageFile, currentLocation, isReportFormOpen, isSubmitting, toast>>
  /\ UNCHANGED <<formFrame, user, hazard_reports, report_seq, objects, viewVars>>

\* text || null
TextOrNull(t) == IF t = "" THEN NULL ELSE Some(t)
\* currentLocation?.latitude || null
CoordOrNull(loc, c) == IF IsNull(loc) \/ ~Truthy(Val(loc)[c]) THEN NULL ELSE Some(Val(loc)[c])
\* Mutant: the score is passed on as the rpc gave it.
ScoreOrDefault_none(data) == data

\* credibilityScore || 0.5
ScoreOrDefault(data) == IF IsNull(data) \/ ~Truthy(Val(data)) THEN Some(50) ELSE data

\* The object handleSubmit inserts.
SubmittedReport(c) ==
  [user_id |-> c.user,
   hazard_type |-> c.formData.hazardType,
   description |-> Some(c.formData.description),
   location |-> Some(c.formData.location),
   contact_number |-> TextOrNull(c.formData.contactNumber),
   latitude |-> CoordOrNull(c.currentLocation, "latitude"),
   longitude |-> CoordOrNull(c.currentLocation, "longitude"),
   image_url |-> c.imageUrl,
   credibility_score |-> ScoreOrDefault(c.credibilityScore)]

\* The insert returns: handleSubmit to its end.
InsertReturn(outcome) ==
  /\ pc = "insert"
  /\ LET r == IF outcome = "response" THEN HazardReportsInsert(sub.user, SubmittedReport(sub))
              ELSE [result |-> "Failed to fetch", table |-> hazard_reports]
     IN  /\ hazard_reports' = r.table
         /\ feed' = PublishReports("INSERT", r.table \ hazard_reports)
         /\ report_seq' = IF r.result = "ok" THEN report_seq + 1 ELSE report_seq
         /\ IF r.result # "ok"
            THEN SubmitFailed("Failed to save report: " \o r.result)
            ELSE /\ toast' = ToastSuccess
                 \* resetForm()
                 /\ formData' = EmptyForm /\ imageFile' = NoFile /\ currentLocation' = NULL
                 \* onClose()
                 /\ isReportFormOpen' = FALSE
                 \* finally
                 /\ isSubmitting' = FALSE
                 /\ pc' = "idle" /\ sub' = NoSub
  /\ UNCHANGED <<formFrame, user, objects, dashRest, panelVars>>

(***************************************************************************)
(* 6. MapDashboard                                                         *)
(***************************************************************************)
UrgencyFilters == {"all", "low", "medium", "high"}
CredibilityFilters == {"all", "high", "medium", "low"}
HIGH_SCORE == 70
MEDIUM_SCORE == 40
DEFAULT_SCORE == 50

\* report.latitude && report.longitude ? [latitude, longitude] : undefined
Coordinates(report) ==
  IF /\ ~IsNull(report.latitude) /\ Truthy(Val(report.latitude))
     /\ ~IsNull(report.longitude) /\ Truthy(Val(report.longitude))
  THEN Some(<<Val(report.latitude), Val(report.longitude)>>)
  ELSE NULL

\* { ...report, coordinates }
Mapped(report) ==
  [c \in DOMAIN report \cup {"coordinates"} |->
     IF c = "coordinates" THEN Coordinates(report) ELSE report[c]]

\* report.credibility_score || 0.5
ScoreOrHalf(report) ==
  IF IsNull(report.credibility_score) \/ ~Truthy(Val(report.credibility_score))
  THEN DEFAULT_SCORE ELSE Val(report.credibility_score)

\* The callback of reports.filter.
PassesFilters(report) ==
  IF filter # "all" /\ report.urgency # Some(filter) THEN FALSE
  ELSE IF credibilityFilter # "all"
  THEN LET score == ScoreOrHalf(report)
       IN  IF credibilityFilter = "high" /\ score < HIGH_SCORE THEN FALSE
           ELSE IF credibilityFilter = "medium" /\ (score < MEDIUM_SCORE \/ score >= HIGH_SCORE) THEN FALSE
           ELSE IF credibilityFilter = "low" /\ score >= MEDIUM_SCORE THEN FALSE
           ELSE TRUE
  ELSE TRUE

filteredReports == SelectSeq(reports, PassesFilters)

\* ORDER BY created_at DESC of a set of rows: every order of the rows in
\* which created_at does not increase.
NewestFirst(rows) ==
  {q \in [1..Cardinality(rows) -> rows] :
     /\ \A i, j \in 1..Cardinality(rows) : i # j => q[i] # q[j]
     /\ \A i, j \in 1..Cardinality(rows) : i < j => q[i].created_at >= q[j].created_at}

\* A fetch in flight: sent, or answered by the backend with data or error.
FetchSent == [served |-> FALSE, error |-> FALSE, data |-> <<>>]
FetchServed(data) == [served |-> TRUE, error |-> FALSE, data |-> data]
FetchError == [served |-> TRUE, error |-> TRUE, data |-> <<>>]
One(x) == SetToBag({x})

\* Mutant: the cleanup of the effect leaves the channel subscribed.
removeChannel_kept(n) == n

\* supabase.removeChannel(channel)
removeChannel(n) == n - 1

\* from('hazard_reports').select('*').order('created_at', desc), as uid.
ReportsQuery(uid) == NewestFirst(HazardReportsSelect(uid))

\* Index: onDashboardClick.  RoleGuard renders MapDashboard, isOpen turns
\* true and the effect runs: fetchReports up to its await, and subscribe.
OpenDashboard ==
  /\ user # NoUser /\ RoleGuardAdmits("authority")
  /\ ~isDashboardOpen
  /\ BagCardinality(fetches) < MaxFetches
  /\ isDashboardOpen' = TRUE
  /\ fetches' = fetches (+) One(FetchSent)
  /\ channels' = channels + 1
  /\ UNCHANGED <<filter, credibilityFilter, reports, feed>>
  /\ UNCHANGED <<scoreVars, hookVars, dbVars, formVars, panelVars>>

\* onClose: isOpen turns false and the cleanup of the effect runs.  The
\* events on their way to a removed channel are not delivered.
CloseDashboard ==
  /\ isDashboardOpen
  /\ isDashboardOpen' = FALSE
  /\ channels' = removeChannel(channels)
  /\ feed' = IF channels' = 0 THEN <<>> ELSE feed
  /\ UNCHANGED <<filter, credibilityFilter, reports, fetches>>
  /\ UNCHANGED <<scoreVars, hookVars, dbVars, formVars, panelVars>>

\* The backend answers a fetchReports query.
FetchReportsServe(outcome) ==
  /\ BagIn(FetchSent, fetches)
  /\ \E answer \in IF outcome = "response"
                   THEN {FetchServed(data) : data \in ReportsQuery(user)}
                   ELSE {FetchError} :
       fetches' = (fetches (-) One(FetchSent)) (+) One(answer)
  /\ UNCHANGED <<isDashboardOpen, filter, credibilityFilter, reports, channels, feed>>
  /\ UNCHANGED <<scoreVars, hookVars, dbVars, formVars, panelVars>>

\* fetchReports from its await to its end.
FetchReportsReturn ==
  \E f \in BagToSet(fetches) :
    /\ f.served
    /\ fetches' = fetches (-) One(f)
    /\ reports' = IF f.error THEN reports
                  ELSE [i \in 1..Len(f.data) |-> Mapped(f.data[i])]
    /\ UNCHANGED <<isDashboardOpen, filter, credibilityFilter, channels, feed>>
    /\ UNCHANGED <<scoreVars, hookVars, dbVars, formVars, panelVars>>

\* Mutant: the new report is put at the end of the list.
OnReportInsert_append ==
  /\ channels > 0 /\ feed # <<>> /\ Head(feed).eventType = "INSERT"
  /\ reports' = reports \o <<Mapped(Head(feed).new)>>
  /\ feed' = Tail(feed)
  /\ UNCHANGED <<isDashboardOpen, filter, credibilityFilter, channels, fetches>>
  /\ UNCHANGED <<scoreVars, hookVars, dbVars, formVars, panelVars>>

\* The callback of the INSERT events.
OnReportInsert ==
  /\ channels > 0 /\ feed # <<>> /\ Head(feed).eventType = "INSERT"
  /\ reports' = <<Mapped(Head(feed).new)>> \o reports
  /\ feed' = Tail(feed)
  /\ UNCHANGED <<isDashboardOpen, filter, credibilityFilter, channels, fetches>>
  /\ UNCHANGED <<scoreVars, hookVars, dbVars, formVars, panelVars>>

\* Mutant: an update for a report the list does not hold is put at its
\* head.
OnReportUpdate_upsert ==
  /\ channels > 0 /\ feed # <<>> /\ Head(feed).eventType = "UPDATE"
  /\ reports' = IF \E i \in 1..Len(reports) : reports[i].id = Head(feed).new.id
                THEN [i \in 1..Len(reports) |->
                        IF reports[i].id = Head(feed).new.id
                        THEN Mapped(Head(feed).new) ELSE reports[i]]
                ELSE <<Mapped(Head(feed).new)>> \o reports
  /\ feed' = Tail(feed)
  /\ UNCHANGED <<isDashboardOpen, filter, credibilityFilter, channels, fetches>>
  /\ UNCHANGED <<scoreVars, hookVars, dbVars, formVars, panelVars>>

\* The callback of the UPDATE events.
OnReportUpdate ==
  /\ channels > 0 /\ feed # <<>> /\ Head(feed).eventType = "UPDATE"
  /\ reports' = [i \in 1..Len(reports) |->
                   IF reports[i].id = Head(feed).new.id
                   THEN Mapped(Head(feed).new) ELSE reports[i]]
  /\ feed' = Tail(feed)
  /\ UNCHANGED <<isDashboardOpen, filter, credibilityFilter, channels, fetches>>
  /\ UNCHANGED <<scoreVars, hookVars, dbVars, formVars, panelVars>>

setFilter(value) ==
  /\ isDashboardOpen /\ filter # value
  /\ filter' = value
  /\ UNCHANGED <<isDashboardOpen, credibilityFilter, reports, channels, feed, fetches>>
  /\ UNCHANGED <<scoreVars, hookVars, dbVars, formVars, panelVars>>

setCredibilityFilter(value) ==
  /\ isDashboardOpen /\ credibilityFilter # value
  /\ credibilityFilter' = value
  /\ UNCHANGED <<isDashboardOpen, filter, reports, channels, feed, fetches>>
  /\ UNCHANGED <<scoreVars, hookVars, dbVars, formVars, panelVars>>

DashIdle ==
  /\ isDashboardOpen = FALSE /\ filter = "all" /\ credibilityFilter = "all"
  /\ reports = <<>> /\ channels = 0 /\ feed = <<>> /\ fetches = EmptyBag

(***************************************************************************)
(* 7. AlertsPanel: the list of alerts                                      *)
(***************************************************************************)
\* ORDER BY created_at DESC of alerts: created_at is now() of the insert,
\* and ids are given in the order of the inserts.
LatestFirst(rows) ==
  {q \in [1..Cardinality(rows) -> rows] :
     /\ \A i, j \in 1..Cardinality(rows) : i # j => q[i] # q[j]
     /\ \A i, j \in 1..Cardinality(rows) : i < j => q[i].id > q[j].id}

\* from('alerts').select('*').eq('is_active', true)
\*   .order('created_at', desc), as uid.
AlertsQuery(uid) ==
  LatestFirst({row \in alerts : AlertsSelectPolicy(uid, row) /\ row.is_active = Some(TRUE)})

\* The panel mounts: useState initial values, and the effect runs
\* (fetchAlerts up to its await, and subscribe).
MountAlertsPanel ==
  /\ user # NoUser /\ ~panelMounted
  /\ panelMounted' = TRUE
  /\ panel_alerts' = <<>>
  /\ alert_fetches' = alert_fetches (+) One(FetchSent)
  /\ alert_channels' = alert_channels + 1
  /\ UNCHANGED alert_feed
  /\ UNCHANGED <<scoreVars, hookVars, dbVars, formVars, dashVars>>

\* The panel unmounts: the cleanup removes the channel, and the state and
\* the continuations of its fetches go with the component.
UnmountAlertsPanel ==
  /\ panelMounted
  /\ panelMounted' = FALSE
  /\ panel_alerts' = <<>>
  /\ alert_channels' = removeChannel(alert_channels)
  /\ alert_feed' = IF alert_channels' = 0 THEN <<>> ELSE alert_feed
  /\ alert_fetches' = EmptyBag
  /\ UNCHANGED <<scoreVars, hookVars, dbVars, formVars, dashVars>>

\* The backend answers a fetchAlerts query.
FetchAlertsServe(outcome) ==
  /\ BagIn(FetchSent, alert_fetches)
  /\ \E answer \in IF outcome = "response"
                   THEN {FetchServed(data) : data \in AlertsQuery(user)}
                   ELSE {FetchError} :
       alert_fetches' = (alert_fetches (-) One(FetchSent)) (+) One(answer)
  /\ UNCHANGED <<panelMounted, panel_alerts, alert_channels, alert_feed>>
  /\ UNCHANGED <<scoreVars, hookVars, dbVars, formVars, dashVars>>

\* fetchAlerts from its await to its end.
FetchAlertsReturn ==
  \E f \in BagToSet(alert_fetches) :
    /\ f.served
    /\ alert_fetches' = alert_fetches (-) One(f)
    /\ panel_alerts' = IF f.error THEN panel_alerts ELSE f.data
    /\ UNCHANGED <<panelMounted, alert_channels, alert_feed>>
    /\ UNCHANGED <<scoreVars, hookVars, dbVars, formVars, dashVars>>

\* The callback of the INSERT events of alerts.
OnAlertInsert ==
  /\ alert_channels > 0 /\ alert_feed # <<>>
  /\ panel_alerts' = <<Head(alert_feed).new>> \o panel_alerts
  /\ alert_feed' = Tail(alert_feed)
  /\ UNCHANGED <<panelMounted, alert_channels, alert_fetches>>
  /\ UNCHANGED <<scoreVars, hookVars, dbVars, formVars, dashVars>>

PanelIdle ==
  /\ panelMounted = FALSE /\ panel_alerts = <<>> /\ alert_channels = 0
  /\ alert_feed = <<>> /\ alert_fetches = EmptyBag

ViewIdle == DashIdle /\ PanelIdle

(***************************************************************************)
(* The rest of the state, while a specification leaves it alone            *)
(***************************************************************************)
HookIdle ==
  /\ user = NoUser /\ role = Null /\ loading = TRUE /\ lookups = {}
  /\ roleFor = NoUser /\ roleVia = "none"

NoResp == [op |-> "none"]

DbEmpty ==
  /\ accounts = {} /\ user_roles = EmptyBag /\ alerts = {}
  /\ hazard_reports = {} /\ report_seq = 0 /\ objects = {} /\ resp = NoResp

(***************************************************************************)
(* Specification of the scorer: every argument tuple, then the call        *)
(***************************************************************************)
InitScore ==
  /\ scoreArgs \in ScoreArgSets /\ scoreResult = NULL
  /\ HookIdle /\ DbEmpty /\ FormIdle /\ ViewIdle

NextScore == RpcScore

SpecScore == InitScore /\ [][NextScore]_vars

(***************************************************************************)
(* Specification of the role resolver: every set of role rows, then the    *)
(* session changes and the lookups                                         *)
(***************************************************************************)
RoleTables == {SetToBag(S) : S \in SUBSET [user_id : Users, role : Roles]}

InitRole ==
  /\ ScoreIdle
  /\ HookIdle
  /\ accounts = Users /\ user_roles \in RoleTables
  /\ alerts = {} /\ hazard_reports = {} /\ report_seq = 0 /\ objects = {}
  /\ resp = NoResp /\ FormIdle /\ ViewIdle

NextRole ==
  \/ \E u \in Users : SignIn(u)
  \/ \E u \in Users : SwitchUser(u)
  \/ SignOut
  \/ \E u \in Users, o \in LookupOutcomes : FetchUserRoleReturn(u, o)

SpecRole == InitRole /\ [][NextRole]_vars

(***************************************************************************)
(* Specification of the alert store: accounts, role rows, alert inserts    *)
(***************************************************************************)
InitAlerts == ScoreIdle /\ HookIdle /\ DbEmpty /\ FormIdle /\ ViewIdle

NextAlerts ==
  \/ \E u \in Users : CreateAccount(u)
  \/ \E u \in Users, r \in Roles : GrantRole(u, r)
  \/ \E u \in Users, r \in Roles : RevokeRole(u, r)
  \/ \E u \in Users, m \in AlertMessages : sendAlert(u, m)
  \/ \E u \in Users, s \in Users, a \in BOOLEAN : ApiInsertAlert(u, s, a)

SpecAlerts == InitAlerts /\ [][NextAlerts]_vars

(***************************************************************************)
(* Specification of the access rules of hazard_reports: every table of     *)
(* role rows the trigger and grants produce, then the API requests         *)
(***************************************************************************)
GrantedRoleTables ==
  {SetToBag([user_id : Users, role : {"citizen"}] \cup S) :
     S \in SUBSET [user_id : Users, role : {"authority", "admin"}]}

InitReports ==
  /\ ScoreIdle /\ HookIdle
  /\ accounts = Users /\ user_roles \in GrantedRoleTables
  /\ alerts = {} /\ hazard_reports = {} /\ report_seq = 0 /\ objects = {}
  /\ resp = NoResp /\ FormIdle /\ ViewIdle

AccessPatches ==
  {[status |-> st] : st \in report_status} \cup {[user_id |-> u] : u \in Users}

NextReports ==
  \/ \E u \in Users, o \in Users : ApiInsertReport(u, ReportOf(o))
  \/ \E u \in Users, id \in 1..MaxReports, p \in AccessPatches :
       ApiUpdateReport(u, id, p)
  \/ \E u \in Users, id \in 1..MaxReports : ApiDeleteReport(u, id)
  \/ \E u \in Users : ApiSelectReports(u)

SpecReports == InitReports /\ [][NextReports]_vars

(***************************************************************************)
(* Specification of the stored credibility scores: inserts and updates      *)
(* that give any score                                                     *)
(***************************************************************************)
InitScores ==
  /\ ScoreIdle /\ HookIdle
  /\ accounts = Users
  /\ user_roles = SetToBag([user_id : Users, role : {"citizen"}])
  /\ alerts = {} /\ hazard_reports = {} /\ report_seq = 0 /\ objects = {}
  /\ resp = NoResp /\ FormIdle /\ ViewIdle

NextScores ==
  \/ \E u \in Users : ApiInsertReport(u, ReportOf(u))
  \/ \E u \in Users, sc \in ScoreInputs :
       ApiInsertReport(u, WithScore(ReportOf(u), sc))
  \/ \E u \in Users, id \in 1..MaxReports, sc \in ScoreInputs :
       ApiUpdateReport(u, id, [credibility_score |-> sc])

SpecScores == InitScores /\ [][NextScores]_vars

(***************************************************************************)
(* Specification of the report intake: a signed-in user fills in, submits, *)
(* closes and reopens the form while the backend answers                   *)
(***************************************************************************)
InitForm ==
  /\ ScoreIdle
  /\ user = "u1" /\ role = Null /\ loading = TRUE /\ lookups = {}
  /\ roleFor = NoUser /\ roleVia = "none"
  /\ accounts = Users
  /\ user_roles = SetToBag([user_id : Users, role : {"citizen"}])
  /\ alerts = {} /\ hazard_reports = {} /\ report_seq = 0 /\ objects = {}
  /\ resp = NoResp /\ FormIdle /\ ViewIdle

NextForm ==
  \/ OpenReportForm
  \/ CloseReportForm
  \/ \E v \in FormHazardTypes : SetField("hazardType", v)
  \/ \E v \in Descriptions \cup {""} : SetField("description", v)
  \/ \E v \in LocationTexts \cup {""} : SetField("location", v)
  \/ \E v \in ContactNumbers \cup {""} : SetField("contactNumber", v)
  \/ \E f \in Files \cup {NoFile} : handleImageSelect(f)
  \/ \E p \in Positions, o \in GeoOutcomes : getCurrentLocation(p, o)
  \/ handleSubmit
  \/ \E o \in RequestOutcomes : UploadReturn(o)
  \/ \E o \in RequestOutcomes : RpcReturn(o)
  \/ \E o \in RequestOutcomes : InsertReturn(o)

SpecForm == InitForm /\ [][NextForm]_vars

(***************************************************************************)
(* Specification of the user-role store: sign-ups (with the trigger) and   *)
(* the service role granting roles and revoking the roles it granted       *)
(***************************************************************************)
InitUserRoles == ScoreIdle /\ HookIdle /\ DbEmpty /\ FormIdle /\ ViewIdle

NextUserRoles ==
  \/ \E u \in Users : CreateAccount(u)
  \/ \E u \in Users, r \in Roles : GrantRole(u, r)
  \/ \E u \in Users, r \in {"authority", "admin"} : RevokeRole(u, r)

SpecUserRoles == InitUserRoles /\ [][NextUserRoles]_vars

(***************************************************************************)
(* Specification of the dashboard's filters: an authority has the          *)
(* dashboard, another user inserts reports of every urgency and score band *)
(***************************************************************************)
\* RoleGuard renders the dashboard for a resolved role authority or admin,
\* which the lookup returns for a user whose lowest role row it is.
InitDashboard ==
  /\ ScoreIdle
  /\ user = "u1" /\ role = "authority" /\ loading = FALSE /\ lookups = {}
  /\ roleFor = "u1" /\ roleVia = "row"
  /\ accounts = Users
  /\ user_roles = SetToBag({RoleRow("u1", "authority"), RoleRow("u2", "citizen")})
  /\ alerts = {} /\ hazard_reports = {} /\ report_seq = 0 /\ objects = {}
  /\ resp = NoResp /\ FormIdle /\ ViewIdle

WithUrgency(input, urgency) ==
  [c \in DOMAIN input \cup {"urgency"} |->
     IF c = "urgency" THEN urgency ELSE input[c]]

BandScores == {Some(0), Some(39), Some(40), Some(69), Some(70), Some(100)}

FilterInputs ==
  {WithUrgency(WithScore(ReportOf("u2"), sc), Some(ur)) : sc \in BandScores, ur \in Urgencies}

NextFilter ==
  \/ OpenDashboard
  \/ CloseDashboard
  \/ \E o \in RequestOutcomes : FetchReportsServe(o)
  \/ FetchReportsReturn
  \/ OnReportInsert
  \/ \E v \in UrgencyFilters : setFilter(v)
  \/ \E v \in CredibilityFilters : setCredibilityFilter(v)
  \/ \E input \in FilterInputs : report_seq < MaxFiltered /\ ApiInsertReport("u2", input)

SpecFilter == InitDashboard /\ [][NextFilter]_vars

(***************************************************************************)
(* Specification of the live dashboard: an authority opens and closes the  *)
(* dashboard while another user inserts and updates reports                *)
(***************************************************************************)
StatusPatches == {[status |-> "resolved"]}

NextDashboard ==
  \/ OpenDashboard
  \/ CloseDashboard
  \/ \E o \in RequestOutcomes : FetchReportsServe(o)
  \/ FetchReportsReturn
  \/ OnReportInsert
  \/ OnReportUpdate
  \/ ApiInsertReport("u2", ReportOf("u2"))
  \/ \E id \in 1..MaxReports, p \in StatusPatches : ApiUpdateReport("u2", id, p)

SpecDashboard == InitDashboard /\ [][NextDashboard]_vars

(***************************************************************************)
(* Specification of the alerts panel: a citizen or an authority has the    *)
(* panel while alerts, active or not, are inserted                         *)
(***************************************************************************)
InitPanel ==
  /\ ScoreIdle
  /\ user = "u1" /\ role = Null /\ loading = TRUE /\ lookups = {}
  /\ roleFor = NoUser /\ roleVia = "none"
  /\ accounts = Users
  /\ user_roles \in {SetToBag([user_id : Users, role : {"citizen"}] \cup S \cup {RoleRow("u2", "authority")}) :
                       S \in SUBSET {RoleRow("u1", "authority")}}
  /\ alerts = {} /\ hazard_reports = {} /\ report_seq = 0 /\ objects = {}
  /\ resp = NoResp /\ FormIdle /\ ViewIdle

NextPanel ==
  \/ MountAlertsPanel
  \/ UnmountAlertsPanel
  \/ \E o \in RequestOutcomes : FetchAlertsServe(o)
  \/ FetchAlertsReturn
  \/ OnAlertInsert
  \/ \E u \in Users, m \in AlertMessages : sendAlert(u, m)
  \/ \E u \in Users, a \in BOOLEAN : ApiInsertAlert(u, u, a)

SpecPanel == InitPanel /\ [][NextPanel]_vars

(***************************************************************************)
(* Specification of the round trip through the report store: a user posts  *)
(* a report with every field given, the dashboard fetches it               *)
(***************************************************************************)
PostedScores == {Some(0), Some(500), Some(554), Some(555), Some(559), Some(1004), Some(1005), Some(9995)}

RoundTripBodies ==
  {[user_id |-> "u2", hazard_type |-> "High Waves", description |-> Some("d"),
    location |-> Some("l"), contact_number |-> cn, latitude |-> la,
    longitude |-> Some(80), image_url |-> Some("1-photo.jpg"),
    credibility_score |-> sc] :
     cn \in {NULL, Some("5550100")},
     la \in {Some(0), Some(13)}, sc \in PostedScores}

NextRoundTrip ==
  \/ OpenDashboard
  \/ CloseDashboard
  \/ \E o \in RequestOutcomes : FetchReportsServe(o)
  \/ FetchReportsReturn
  \/ OnReportInsert
  \/ \E body \in RoundTripBodies : report_seq < MaxPosted /\ PostReport("u2", body)

SpecRoundTrip == InitDashboard /\ [][NextRoundTrip]_vars

(***************************************************************************)
(* Specification of one session of the dashboard: an authority opens the   *)
(* dashboard on an empty list and keeps it open, and reports are inserted  *)
(* and updated while it is open.  Before the fetch response is applied     *)
(* the list holds only what insert events delivered.                       *)
(***************************************************************************)
NextSession ==
  \/ OpenDashboard
  \/ \E o \in RequestOutcomes : FetchReportsServe(o)
  \/ FetchReportsReturn
  \/ OnReportInsert
  \/ OnReportUpdate
  \/ isDashboardOpen /\ ApiInsertReport("u2", ReportOf("u2"))
  \/ \E id \in 1..MaxReports, p \in StatusPatches :
       isDashboardOpen /\ ApiUpdateReport("u2", id, p)

SpecSession == InitDashboard /\ [][NextSession]_vars

(***************************************************************************)
(* Claims                                                                  *)
(***************************************************************************)
Flag(b, bonus) == IF b THEN bonus ELSE 0
Min(a, b) == IF a <= b THEN a ELSE b

\* C1: for every argument tuple the returned score is
\* min(1.00, 0.10 + 0.30 [image] + 0.20 [location] + 0.10 [length > 50]
\* + 0.30 [nearby > 0]); a description of exactly 50 characters earns no
\* length bonus and one of 51 does; score(F,F,0,0) = 0.10,
\* score(T,F,10,0) = 0.40 and score(T,T,60,1) = 1.00.
C1_ScoreFormula ==
  scoreResult # NULL =>
    LET a == scoreArgs
        r == Val(scoreResult)
    IN  /\ r = Min(100, 10 + Flag(a.has_image, 30) + Flag(a.has_location, 20)
                        + Flag(a.description_length > 50, 10)
                        + Flag(a.nearby_reports_count > 0, 30))
        /\ (a = [has_image |-> FALSE, has_location |-> FALSE,
                 description_length |-> 0, nearby_reports_count |-> 0]
              => r = 10)
        /\ (a = [has_image |-> TRUE, has_location |-> FALSE,
                 description_length |-> 10, nearby_reports_count |-> 0]
              => r = 40)
        /\ (a = [has_image |-> TRUE, has_location |-> TRUE,
                 description_length |-> 60, nearby_reports_count |-> 1]
              => r = 100)
        /\ (a = [has_image |-> FALSE, has_location |-> FALSE,
                 description_length |-> 50, nearby_reports_count |-> 0]
              => r = 10)
        /\ (a = [has_image |-> FALSE, has_location |-> FALSE,
                 description_length |-> 51, nearby_reports_count |-> 0]
              => r = 20)

C1_Witness ==
  /\ scoreArgs = [has_image |-> TRUE, has_location |-> TRUE,
                  description_length |-> 60, nearby_reports_count |-> 1]
  /\ scoreResult = Some(100)
HeldRoles(u) == {r \in Roles : has_role(u, r)}

\* C2: for every user and every non-empty set of role rows the user holds,
\* the client's lookup resolves to the highest-ranked role held
\* (admin > authority > citizen), which is what get_user_role returns.
C2_ClientResolvesHighest ==
  roleVia = "row" => role = get_user_role(roleFor)

\* C3: for every resolved role r and required role q, hasRole(q) is true
\* exactly when rank(r) >= rank(q): admin satisfies all three, authority
\* satisfies authority and citizen, citizen satisfies citizen only.
C3_HasRoleIffRank ==
  role # Null =>
    \A q \in Roles :
      hasRole(q) <=>
        <<role, q>> \in {<<"admin", "admin">>, <<"admin", "authority">>,
                         <<"admin", "citizen">>, <<"authority", "authority">>,
                         <<"authority", "citizen">>, <<"citizen", "citizen">>}

C3_Witness ==
  /\ roleVia = "row" /\ role = "admin" /\ hasRole("citizen")

\* C4: a lookup of a signed-in user that finds no role row, returns an
\* error or throws resolves to citizen, never to authority or admin, and
\* leaves loading false.
C4_FailedLookupIsCitizen ==
  roleVia \in {"norow", "error", "thrown"} =>
    /\ role = "citizen"
    /\ loading = FALSE

C4_Witness ==
  /\ roleVia = "error" /\ role = "citizen" /\ ~loading
  /\ roleFor = user /\ has_role(user, "admin")
IsAlertInsert(r) == r.op = "alerts.insert"

\* C5: every alert row was inserted by a user who held an authority or
\* admin role row when inserting; an insert by a user holding neither is
\* rejected and leaves the alert collection unchanged.
C5_AlertsOnlyByAuthority ==
  [][/\ \A a \in alerts' : a.by_held
     /\ (/\ IsAlertInsert(resp')
         /\ HeldRoles(resp'.caller) \cap {"authority", "admin"} = {})
        => (resp'.result = "rls_violation" /\ alerts' = alerts)]_vars

C5_Witness ==
  /\ IsAlertInsert(resp) /\ resp.result = "rls_violation"
  /\ HeldRoles(resp.caller) = {"citizen"}
  /\ \E a \in alerts : HeldRoles(a.by) = {"citizen"}
IsAuthority(u) == HeldRoles(u) \cap {"authority", "admin"} # {}
ReportById(table, id) == CHOOSE row \in table : row.id = id

\* C6: an insert into hazard_reports is accepted only when the row's owner
\* is the caller; an update or delete is accepted only when the caller owns
\* the row; a read returns a row if and only if the caller owns it or holds
\* an authority or admin role row.
C6_ReportAccess ==
  [][/\ (resp'.op = "hazard_reports.insert" /\ resp'.result = "ok")
          => /\ \E row \in hazard_reports' : row.id = resp'.id
             /\ ReportById(hazard_reports', resp'.id).user_id = resp'.caller
     /\ (/\ resp'.op \in {"hazard_reports.update", "hazard_reports.delete"}
         /\ resp'.result = "ok")
          => ReportById(hazard_reports, resp'.id).user_id = resp'.caller
     /\ resp'.op = "hazard_reports.select"
          => resp'.rows = {row \in hazard_reports :
                             row.user_id = resp'.caller \/ IsAuthority(resp'.caller)}
    ]_vars

C6_Witness ==
  /\ resp.op = "hazard_reports.select"
  /\ \E row \in resp.rows : row.user_id # resp.caller
  /\ \E row \in resp.rows : row.user_id = resp.caller

IsStatusUpdate(r) == r.op = "hazard_reports.update" /\ "status" \in DOMAIN r.patch

C8_ScoreInRange ==
  \A row \in hazard_reports :
    /\ ~IsNull(row.credibility_score)
    /\ Val(row.credibility_score) >= 0
    /\ Val(row.credibility_score) <= 100

\* C8 amended: every stored credibility score is either NULL or lies in
\* [0.00, 1.00]; an insert or update that gives a score below 0 or above 1
\* is rejected by the CHECK, one that gives NULL is not.
C8_ScoreNullOrInRange ==
  \A row \in hazard_reports :
    \/ IsNull(row.credibility_score)
    \/ (Val(row.credibility_score) >= 0 /\ Val(row.credibility_score) <= 100)

C8_Witness ==
  /\ resp.op = "hazard_reports.update" /\ resp.result = "check_violation"
  /\ resp.patch.credibility_score = Some(101)
  /\ ReportById(hazard_reports, resp.id).credibility_score = Some(100)
\* C9: when handleSubmit runs with hazard type, description or location
\* empty it ends with the validation error, starts no upload, no scoring
\* call and no insert (it is not suspended at any of them), and leaves the
\* form fields, the selected image and the captured location unchanged.
C9_ValidationStopsSubmit ==
  [][(/\ handleSubmit
      /\ (formData.hazardType = "" \/ formData.description = "" \/ formData.location = ""))
       => /\ toast'.title = "Missing Information"
          /\ pc' = "idle" /\ isSubmitting' = FALSE
          /\ UNCHANGED <<formData, imageFile, currentLocation>>
          /\ UNCHANGED <<objects, hazard_reports, report_seq>>
    ]_vars

C9_Witness ==
  /\ toast = ToastMissing /\ pc = "idle" /\ ~isSubmitting
  /\ formData.hazardType # "" /\ formData.description # "" /\ formData.location = ""
  /\ imageFile # NoFile /\ hazard_reports = {} /\ objects = {}

\* C10: when an image is selected and its upload fails, the submission is
\* aborted: handleSubmit ends without the scoring call and without the
\* insert, the upload error is shown, the form's state is not reset and
\* the form is not closed.
UploadErrors == {"new row violates row-level security policy", "The resource already exists", "Failed to fetch"}

C10_UploadFailureAborts ==
  [][(pc = "upload" /\ pc' # "upload" /\ objects' = objects)
       => /\ pc' = "idle" /\ isSubmitting' = FALSE
          /\ toast' \in {ToastFailed("Image upload failed: " \o e) : e \in UploadErrors}
          /\ UNCHANGED <<formData, imageFile, currentLocation, isReportFormOpen>>
          /\ UNCHANGED <<hazard_reports, report_seq>>
    ]_vars
C10_Witness ==
  /\ toast \in {ToastFailed("Image upload failed: " \o e) : e \in UploadErrors}
  /\ pc = "idle" /\ ~isSubmitting /\ isReportFormOpen
  /\ imageFile # NoFile /\ ~MissingRequired(formData)
  /\ hazard_reports = {} /\ report_seq = 0
\* C11: a submission in which every step succeeds inserts exactly one
\* hazard report row owned by the submitting user, with status submitted
\* and credibility score equal to the scorer's result for (image selected,
\* location captured, description length, 0), and afterwards the form
\* fields, the selected image and the captured location are reset.
C11_SuccessfulSubmission ==
  [][(pc = "insert" /\ sub.credibilityScore # NULL /\ report_seq' = report_seq + 1)
       => /\ \E row \in hazard_reports' :
               /\ row \notin hazard_reports
               /\ hazard_reports' = hazard_reports \cup {row}
               /\ row.user_id = sub.user
               /\ row.status = "submitted"
               /\ row.credibility_score =
                    Some(calculate_credibility_score(sub.imageFile # NoFile, ~IsNull(sub.currentLocation), Len(sub.formData.description), 0))
          /\ formData' = EmptyForm /\ imageFile' = NoFile /\ currentLocation' = NULL
    ]_vars

\* C17: for all inputs (both booleans, any description length and any
\* nearby count, negative ones included) the value
\* calculate_credibility_score returns lies in [0.10, 1.00].
C17_ScoreRange ==
  scoreResult # NULL => (Val(scoreResult) >= 10 /\ Val(scoreResult) <= 100)

C17_Witness ==
  /\ scoreResult = Some(10)
  /\ scoreArgs.description_length < 0 /\ scoreArgs.nearby_reports_count < 0

\* The argument tuples that differ from a in one argument only, which is
\* larger (FALSE < TRUE).
OneArgumentRaised(a) ==
  {b \in ScoreArgSets :
     \/ /\ ~a.has_image /\ b.has_image
        /\ b.has_location = a.has_location
        /\ b.description_length = a.description_length
        /\ b.nearby_reports_count = a.nearby_reports_count
     \/ /\ ~a.has_location /\ b.has_location
        /\ b.has_image = a.has_image
        /\ b.description_length = a.description_length
        /\ b.nearby_reports_count = a.nearby_reports_count
     \/ /\ b.description_length > a.description_length
        /\ b.has_image = a.has_image /\ b.has_location = a.has_location
        /\ b.nearby_reports_count = a.nearby_reports_count
     \/ /\ b.nearby_reports_count > a.nearby_reports_count
        /\ b.has_image = a.has_image /\ b.has_location = a.has_location
        /\ b.description_length = a.description_length}

\* C18: calculate_credibility_score is non-decreasing in each argument
\* taken alone: with the other three fixed, turning hasImage or hasLocation
\* from false to true, or increasing descriptionLength or
\* nearbyReportsCount, never lowers the returned score.
C18_ScoreMonotone ==
  scoreResult # NULL =>
    \A b \in OneArgumentRaised(scoreArgs) :
      Val(scoreResult) <= calculate_credibility_score(b.has_image, b.has_location, b.description_length, b.nearby_reports_count)

C18_Witness ==
  /\ scoreResult = Some(10)
  /\ scoreArgs.description_length = LENGTH_THRESHOLD
  /\ \E b \in OneArgumentRaised(scoreArgs) :
       /\ b.description_length = LENGTH_THRESHOLD + 1
       /\ calculate_credibility_score(b.has_image, b.has_location, b.description_length, b.nearby_reports_count) = 20

\* C20: for every set of role rows a user can hold (a subset of citizen,
\* authority, admin that contains citizen), the client's
\* hasRole("authority") on the resolved role is true if and only if the
\* alert-creation policy of the storage layer admits that user.
C20_ClientAgreesWithPolicy ==
  (/\ user \in Users /\ roleFor = user /\ roleVia = "row"
   /\ has_role(user, "citizen"))
    => (hasRole("authority") <=> AlertsInsertPolicy(user))
Listed(report) == \E j \in 1..Len(filteredReports) : filteredReports[j] = report

\* C12: for every report with urgency low, medium or high and a stored
\* score in 0.00..1.00 and every pair of filter settings, the report is in
\* the filtered list if and only if (the urgency filter is "all" or equals
\* the report's urgency) and (the credibility filter is "all", or "high"
\* and score >= 0.70, or "medium" and 0.40 <= score < 0.70, or "low" and
\* score < 0.40); every score below 0.40, 0.00 included, is low.
C12_FilteredList ==
  \A i \in 1..Len(reports) :
    LET report == reports[i]
        score == Val(report.credibility_score)
    IN  (/\ report.urgency \in {Some(ur) : ur \in Urgencies}
         /\ ~IsNull(report.credibility_score) /\ score >= 0 /\ score <= 100)
          => (Listed(report) <=>
                /\ (filter = "all" \/ report.urgency = Some(filter))
                /\ \/ credibilityFilter = "all"
                   \/ credibilityFilter = "high" /\ score >= 70
                   \/ credibilityFilter = "medium" /\ score >= 40 /\ score < 70
                   \/ credibilityFilter = "low" /\ score < 40)
\* A step that delivers the first event of the feed to its callback.
Delivered == feed # <<>> /\ feed' = Tail(feed) /\ channels' = channels

SameRow(entry, row) == \A c \in DOMAIN row : entry[c] = row[c]

\* C13: while the dashboard is subscribed, an insert event puts the new
\* report at the head of the in-memory list and leaves all prior entries
\* and their order unchanged; an update event whose id matches an entry
\* replaces that entry in place with the event's row and leaves the list
\* length, every other entry and the order unchanged.
C13_EventsOnList ==
  [][Delivered =>
       LET e == Head(feed)
       IN  /\ e.eventType = "INSERT" =>
                /\ Len(reports') = Len(reports) + 1
                /\ SameRow(reports'[1], e.new)
                /\ \A i \in 1..Len(reports) : reports'[i + 1] = reports[i]
           /\ (e.eventType = "UPDATE" /\ \E i \in 1..Len(reports) : reports[i].id = e.new.id) =>
                /\ Len(reports') = Len(reports)
                /\ \A i \in 1..Len(reports) :
                     IF reports[i].id = e.new.id
                     THEN SameRow(reports'[i], e.new)
                     ELSE reports'[i] = reports[i]
    ]_vars

C13_Witness ==
  /\ isDashboardOpen /\ channels = 1 /\ feed = <<>> /\ fetches = EmptyBag
  /\ Len(reports) = 2
  /\ reports[1].id = 2 /\ reports[1].status = "submitted"
  /\ reports[2].id = 1 /\ reports[2].status = "resolved"

\* C14: over any sequence of opens and closes of the dashboard, a
\* subscription is established each time it opens and removed each time
\* it closes: exactly one is active while it is open and none while it is
\* closed.
C14_SubscriptionLifecycle ==
  [][/\ (~isDashboardOpen /\ isDashboardOpen') => channels' = channels + 1
     /\ (isDashboardOpen /\ ~isDashboardOpen') => channels' = channels - 1
     /\ isDashboardOpen' => channels' = 1
     /\ ~isDashboardOpen' => channels' = 0
    ]_vars

C14_Witness ==
  /\ ~isDashboardOpen /\ channels = 0
  /\ fetches = EmptyBag
  /\ reports # <<>>

\* C15: after any sequence of the initial alert fetch and alert insert
\* events, every alert in the in-memory list of the alerts panel of a
\* user whose role is citizen is an active alert; an alert that is not
\* active is never shown.
C15_CitizenSeesActiveAlerts ==
  get_user_role(user) = "citizen" =>
    \A i \in 1..Len(panel_alerts) : panel_alerts[i].is_active = Some(TRUE)

C15_Witness ==
  /\ get_user_role(user) = "citizen"
  /\ panelMounted /\ alert_feed = <<>> /\ alert_fetches = EmptyBag
  /\ Len(panel_alerts) = 1
  /\ Cardinality(alerts) = 2
  /\ \E a \in alerts : a.is_active = Some(FALSE) /\ a.id > panel_alerts[1].id
GivenFields == {"hazard_type", "description", "location", "contact_number", "latitude", "longitude", "image_url"}

\* The entries of the dashboard's list that hold the report last posted.
FetchedBack == {i \in 1..Len(reports) : resp.op = "hazard_reports.post" /\ resp.result = "ok" /\ reports[i].id = resp.id}

\* C19: after a report is inserted with given hazard type, description,
\* location, contact number, latitude, longitude, image reference and
\* score, fetching it back yields the same value for each of those fields;
\* only id, timestamps and the omitted status and urgency take server
\* defaults (submitted, medium).
C19_RoundTrip ==
  \A i \in FetchedBack :
    /\ \A c \in GivenFields : reports[i][c] = resp.body[c]
    /\ JsonNumber(reports[i].credibility_score) = resp.body.credibility_score
    /\ reports[i].status = "submitted" /\ reports[i].urgency = Some("medium")

\* C19 as amended: the score comes back rounded to two decimal places, the
\* same when it was given with at most two.
C19_RoundTripRounded ==
  \A i \in FetchedBack :
    LET given == Val(resp.body.credibility_score)
        back == Val(JsonNumber(reports[i].credibility_score))
    IN  /\ \A c \in GivenFields : reports[i][c] = resp.body[c]
        /\ back % 10 = 0
        /\ back - given <= 5 /\ given - back <= 5
        /\ (given % 10 = 0 => back = given)
        /\ reports[i].status = "submitted" /\ reports[i].urgency = Some("medium")

C19_Witness ==
  /\ FetchedBack # {}
  /\ fetches = EmptyBag /\ feed = <<>>
  /\ resp.body.credibility_score = Some(559)
  /\ resp.body.latitude = Some(0)
  /\ \A i \in FetchedBack : reports[i].credibility_score = Some(56)

\* C21: an update event whose id matches no entry of the dashboard's
\* in-memory list leaves the list unchanged (same entries, same order,
\* same length): the updated row is dropped, not inserted.
C21_UnmatchedUpdateDropped ==
  [][(/\ Delivered
      /\ Head(feed).eventType = "UPDATE"
      /\ \A i \in 1..Len(reports) : reports[i].id # Head(feed).new.id)
       => reports' = reports
    ]_vars

\* The dashboard is subscribed, report 1 was set to resolved and its update
\* event was taken off the feed, and the list holds report 2 only.
C21_Witness ==
  /\ isDashboardOpen /\ channels = 1 /\ feed = <<>>
  /\ resp.op = "hazard_reports.update" /\ resp.id = 1 /\ resp.result = "ok"
  /\ Len(reports) = 1 /\ reports[1].id = 2

\* C22: when the scoring call fails or returns no value during a
\* submission whose other steps succeed, the submission is not aborted:
\* handleSubmit goes on to the insert, exactly one report is inserted and
\* its credibility score is 0.50.
C22_ScoringFailureDefaults ==
  [][/\ (pc = "rpc" /\ pc' # "rpc" /\ sub'.credibilityScore = NULL)
          => /\ pc' = "insert" /\ isSubmitting' /\ toast' = toast
             /\ hazard_reports' = hazard_reports
     /\ (pc = "insert" /\ sub.credibilityScore = NULL /\ report_seq' = report_seq + 1)
          => /\ toast' = ToastSuccess
             /\ \E row \in hazard_reports' :
                  /\ row \notin hazard_reports
                  /\ hazard_reports' = hazard_reports \cup {row}
                  /\ row.user_id = sub.user
                  /\ row.credibility_score = Some(50)
    ]_vars

\* A submission went through with a row for which the scorer gives 0.10 (no
\* image, no location, 50 characters) and which carries 0.50.
C22_Witness ==
  /\ toast = ToastSuccess /\ pc = "idle" /\ ~isSubmitting
  /\ \E row \in hazard_reports :
       /\ row.description = Some(D50) /\ row.image_url = NULL /\ row.latitude = NULL
       /\ row.longitude = NULL
       /\ row.credibility_score = Some(50)

\* C23: report intake always passes nearby_reports_count = 0, so the +0.30
\* nearby term is never applied: over any sequence of submissions, the
\* scorer's result for a call with count 0 (whatever the image flag, the
\* location flag and the description length), the score a scoring call
\* returns to handleSubmit and the score of every row report intake wrote
\* are at most 0.70.
C23_IntakeScoreAtMost70 ==
  /\ \A has_image \in BOOLEAN, has_location \in BOOLEAN, description_length \in 0..MaxDescLen :
       calculate_credibility_score(has_image, has_location, description_length, 0) <= 70
  /\ ~IsNull(sub.credibilityScore) => Val(sub.credibilityScore) <= 70
  /\ \A row \in hazard_reports :
       ~IsNull(row.credibility_score) /\ Val(row.credibility_score) <= 70

\* A row written with the scorer's result for a captured location and a
\* description of 50 characters.
C23_Witness ==
  /\ toast = ToastSuccess /\ pc = "idle"
  /\ \E row \in hazard_reports :
       /\ row.description = Some(D50) /\ row.latitude = Some(13)
       /\ row.credibility_score = Some(30)

\* C24: each submission is a single attempt.  One handleSubmit run goes
\* through upload, scoring call and insert in that order and at most once
\* each; the bucket and the table change only in the step that ends the
\* upload and the insert; a step that fails ends the run (no request is
\* issued again); and in every outcome the submitting flag is false once
\* the run has ended, and true while a request is out.
C24_SingleAttempt ==
  [][/\ pc = "idle" => pc' \in {"idle", "upload", "rpc"}
     /\ pc = "upload" => pc' \in {"upload", "rpc", "idle"}
     /\ pc = "rpc" => pc' \in {"rpc", "insert"}
     /\ pc = "insert" => pc' \in {"insert", "idle"}
     /\ objects' # objects => pc = "upload" /\ pc' = "rpc"
     /\ hazard_reports' # hazard_reports =>
          /\ pc = "insert" /\ pc' = "idle"
          /\ Cardinality(hazard_reports') = Cardinality(hazard_reports) + 1
     /\ (pc # "idle" /\ toast' # toast /\ toast'.title = "Submission Failed") =>
          pc' = "idle" /\ sub' = NoSub
     /\ isSubmitting' <=> pc' # "idle"
    ]_vars

\* A run whose insert failed has ended: nothing was written and the flag
\* is back to false.
C24_Witness ==
  /\ toast = ToastFailed("Failed to save report: Failed to fetch")
  /\ pc = "idle" /\ ~isSubmitting /\ isReportFormOpen
  /\ hazard_reports = {} /\ report_seq = 0

\* C25: closing the report form while a submission is in flight does not
\* cancel the write.  The step that closes the form leaves the run where
\* it is; while the form is closed the pending upload, scoring call and
\* insert can still return; and the row the insert adds is the row built
\* from the values submitted, as with the form open.
C25_CloseDoesNotCancel ==
  [][/\ (isReportFormOpen /\ ~isReportFormOpen' /\ hazard_reports' = hazard_reports)
          => /\ pc' = pc /\ sub' = sub /\ isSubmitting' = isSubmitting
             /\ objects' = objects
     /\ (~isReportFormOpen /\ pc = "upload") => \E o \in RequestOutcomes : ENABLED UploadReturn(o)
     /\ (~isReportFormOpen /\ pc = "rpc") => \E o \in RequestOutcomes : ENABLED RpcReturn(o)
     /\ (~isReportFormOpen /\ pc = "insert") => \E o \in RequestOutcomes : ENABLED InsertReturn(o)
     /\ (pc = "insert" /\ report_seq' = report_seq + 1)
          => hazard_reports' = hazard_reports \cup {NewReport(report_seq + 1, SubmittedReport(sub))}
    ]_vars

\* The form was closed during a run, and the run has gone on to its insert.
C25_Witness ==
  /\ ~isReportFormOpen /\ isSubmitting /\ pc = "insert"
  /\ sub.credibilityScore = Some(30)
  /\ hazard_reports = {}

\* C26: under every interleaving of the initial fetch response with
\* insert and update events, and across close and re-open of the
\* dashboard, the in-memory report list never contains two entries with
\* the same report id.
C26_NoDuplicateIds ==
  \A i, j \in 1..Len(reports) : i # j => reports[i].id # reports[j].id

\* The ids of the dashboard's list.
ListedIds(list) == {list[i].id : i \in 1..Len(list)}

\* C27: no delivered insert is lost.  Once an insert event for a report
\* has been delivered to an open dashboard, that report stays in the
\* in-memory list until the dashboard is closed, even when the event
\* arrives while the initial fetch is in flight and the fetch response is
\* applied afterwards.  (In SpecSession the list starts empty, one fetch is
\* sent and every report is inserted while the dashboard is subscribed, so
\* an entry that the fetch response removes is one an insert event put
\* there.)
C27_NoDeliveredInsertLost ==
  [][(isDashboardOpen /\ isDashboardOpen') => ListedIds(reports) \subseteq ListedIds(reports')]_vars

\* C28: after any sequence of initial fetch, insert events and update
\* events, the dashboard's in-memory list is ordered by creation time
\* descending (newest first), as the fetched list is.
C28_ListNewestFirst ==
  \A i, j \in 1..Len(reports) : i < j => reports[i].created_at >= reports[j].created_at

\* C29: whenever RoleGuard renders its protected children (the dashboard,
\* required role authority), the role it holds was resolved for the user
\* now signed in and has rank >= authority: across sign-out, a switch of
\* user and lookups that complete out of order, the guard never admits the
\* current user on a role resolved for a previous user.
C29_GuardRoleIsCurrentUsers ==
  (user # NoUser /\ RoleGuardAdmits("authority"))
    => /\ roleFor = user
       /\ roleHierarchy[role] >= roleHierarchy["authority"]

\* C30: an image upload issued by report intake for a signed-in user,
\* under the object key intake generates (a timestamp-prefixed file name
\* with no folder), satisfies the insert policy of the bucket
\* report-images, so a submission with an image can reach the report
\* insert.
C30_UploadKeySatisfiesPolicy ==
  pc = "upload" => ObjectsInsertPolicy(sub.user, sub.fileName)
====
